---- MODULE Spec2Model ----
(***************************************************************************)
(* Kanban board drag-and-drop synchronisation (static/js/kanban-board.js). *)
(*                                                                         *)
(* The DOM is modelled as one ordered sequence of task ids per column and  *)
(* one badge per column.  Indices are zero-based as in the script; the     *)
(* element at index i of a column is cols[c][i + 1].  A column's children  *)
(* are exactly its task elements and every column has a badge.             *)
(*                                                                         *)
(* A gesture is what the Sortable library does between the onStart and the *)
(* onEnd callback; the positions the dragged element takes while it hovers *)
(* are not modelled, the move appears in the DOM when the gesture ends.    *)
(* Sortable runs one gesture at a time; onEnd is an async function, so its *)
(* two awaits (fetch, response.json) are points where other callbacks run. *)
(*                                                                         *)
(* Link form set (static/js/links_formset.js), a script of another page.   *)
(* The container is modelled as the sequence of its .link-form rows, each  *)
(* row by the index its field names carry and the state of its fields.     *)
(* The two scripts never run on one page: under Spec and FairSpec the form *)
(* set stands idle, under LinksSpec the board does.                        *)
(***************************************************************************)
EXTENDS Integers, Sequences, FiniteSets, TLC

\* ---------------------------------------------------------------- bounds
NumTasks == 2
NumCols  == 2
MaxDrops == 2
InitRows == 2
MaxRows  == 4
MaxGuess == 5

Tasks   == 1..NumTasks
Columns == 1..NumCols

\* null / undefined of the script
Null == -1
Undefined == -1

\* counts a response may carry
ServerCounts == 0..NumTasks

\* error texts
MoveFailed       == "Move failed"
CouldNotMoveTask == "Could not move task"
ServerErrors     == {"locked"}
NoErrorField     == "<undefined>"
TransportMessages == {"", "Failed to fetch"}
ParseMessages     == {"Unexpected token < in JSON at position 0"}
NullDataMessage   == "Cannot read properties of null (reading 'ok')"

VARIABLES
    cols,        \* column id -> sequence of task ids (the DOM children)
    badge,       \* column id -> displayed count
    canDrag,     \* column id -> data-can-drag = 'true'
    initialized, \* initializeKanbanBoard has been called
    registered,  \* columns that carry a Sortable
    session,     \* draggedElement, originalColumn, originalIndex
    gesture,     \* the gesture in progress: item, from, oldIndex
    drops,       \* one record per onEnd invocation
    fetchCalls,  \* number of move requests issued
    toastCount,  \* notifications emitted
    toastMsg,    \* text of the latest notification
    startLog,    \* gestures started and the event of the latest (history)
    last,        \* the step that led to this state (history)
    rows,        \* the .link-form rows of the container, in document order
    totalForms,  \* value of the TOTAL_FORMS input
    linkLast     \* the form set operation that led to this state (history)

linkVars == <<rows, totalForms, linkLast>>

vars == <<cols, badge, canDrag, initialized, registered, session, gesture,
          drops, fetchCalls, toastCount, toastMsg, startLog, last,
          rows, totalForms, linkLast>>

\* ------------------------------------------------------------ sequences
Remove(seq, x) == SelectSeq(seq, LAMBDA y : y # x)

InsertAt(seq, i, x) == SubSeq(seq, 1, i) \o <<x>> \o SubSeq(seq, i + 1, Len(seq))

Contains(seq, x) == \E k \in 1..Len(seq) : seq[k] = x

IndexOf(seq, x) == (CHOOSE k \in 1..Len(seq) : seq[k] = x) - 1

ColumnOf(cs, t) == CHOOSE c \in Columns : Contains(cs[c], t)

\* the places (column, position) at which task t stands
Places(cs, t) ==
    UNION {{<<c, k>> : k \in {j \in 1..Len(cs[c]) : cs[c][j] = t}} : c \in Columns}

\* ------------------------------------------------------------------ DOM
Detach(cs, node) == [c \in Columns |-> Remove(cs[c], node)]

\* a mutation of InsertBefore: the node is copied, not moved
InsertBeforeCopy(cs, parent, node, referenceNode) ==
    IF node = referenceNode THEN cs
    ELSE [cs EXCEPT ![parent] = InsertAt(@, IndexOf(@, referenceNode), node)]

\* parent.insertBefore(node, referenceNode); referenceNode is a child of
\* parent.  Inserting a node before itself leaves the tree as it is.
InsertBefore(cs, parent, node, referenceNode) ==
    IF node = referenceNode THEN cs
    ELSE LET d == Detach(cs, node)
         IN  [d EXCEPT ![parent] = InsertAt(@, IndexOf(@, referenceNode), node)]

\* parent.appendChild(node)
AppendChild(cs, parent, node) ==
    LET d == Detach(cs, node) IN [d EXCEPT ![parent] = Append(@, node)]

\* ---------------------------------------------------------------- badges
UpdateBadgeCount(b, columnId, count) == [b EXCEPT ![columnId] = count]

\* a mutation of UpdateColumnCounts: the destination column is not recounted
UpdateColumnCountsOriginOnly(b, cs, fromColumn, toColumn) ==
    IF fromColumn # Null
    THEN UpdateBadgeCount(b, fromColumn, Len(cs[fromColumn]))
    ELSE b

UpdateColumnCounts(b, cs, fromColumn, toColumn) ==
    LET b1 == IF fromColumn # Null
              THEN UpdateBadgeCount(b, fromColumn, Len(cs[fromColumn]))
              ELSE b
    IN  IF toColumn # Null /\ toColumn # fromColumn
        THEN UpdateBadgeCount(b1, toColumn, Len(cs[toColumn]))
        ELSE b1

\* --------------------------------------------------------------- session
NoSession == [draggedElement |-> Null, originalColumn |-> Null, originalIndex |-> Null]

\* a mutation of CaptureSession: the index is not recorded
CaptureSessionNoIndex(evt) ==
    [draggedElement |-> evt.item, originalColumn |-> evt.from, originalIndex |-> 0]

CaptureSession(evt) ==
    [draggedElement |-> evt.item, originalColumn |-> evt.from, originalIndex |-> evt.oldIndex]

NoGesture == [item |-> Null, from |-> Null, oldIndex |-> Null]

\* a mutation of SessionAfterRevert: the rollback ends the session
SessionCleared(s) == NoSession

\* revertMove reads the three globals and assigns none of them
SessionAfterRevert(s) == s

\* -------------------------------------------------------------- rollback
\* a mutation of RollbackSnapshot: the rollback uses what the drop's own
\* gesture recorded
RollbackSnapshotOfDrop(s, evt) ==
    [draggedElement |-> evt.item, originalColumn |-> evt.from, originalIndex |-> evt.oldIndex]

\* revertMove(evt) takes the task, the column and the index from the three
\* globals, not from evt
RollbackSnapshot(s, evt) == s

\* a mutation of RevertMove: the task always goes to the end of the column
RevertMoveAppendOnly(cs, s) ==
    IF s.originalColumn # Null /\ s.draggedElement # Null
    THEN AppendChild(cs, s.originalColumn, s.draggedElement)
    ELSE cs

\* the DOM after revertMove
RevertMove(cs, s) ==
    IF s.originalColumn # Null /\ s.draggedElement # Null
    THEN LET children == cs[s.originalColumn]
             referenceNode == IF s.originalIndex < Len(children)
                              THEN children[s.originalIndex + 1]
                              ELSE Null
         IN  IF referenceNode # Null
             THEN InsertBefore(cs, s.originalColumn, s.draggedElement, referenceNode)
             ELSE AppendChild(cs, s.originalColumn, s.draggedElement)
    ELSE cs

\* the badges after revertMove(evt), cs being the DOM it produced
RevertCounts(b, cs, s, evtTo) ==
    IF s.originalColumn # Null /\ s.draggedElement # Null
    THEN UpdateColumnCounts(b, cs, evtTo, s.originalColumn)
    ELSE b

\* -------------------------------------------------------------- requests
\* the request of one fetch call: the task id goes into the URL, the rest
\* into the body
\* a mutation of MoveRequest: the task always asks for the top of the column
MoveRequestToTop(taskId, newColumnId, newIndex) ==
    [taskId |-> taskId, column_id |-> newColumnId, position |-> 0]

MoveRequest(taskId, newColumnId, newIndex) ==
    [taskId |-> taskId, column_id |-> newColumnId, position |-> newIndex]

NoRequest == MoveRequest(Null, Null, Null)

\* a mutation of Fetch: the request is issued a second time
FetchTwice(n) == n + 2

\* fetch calls made once one more request is issued
Fetch(n) == n + 1

\* ------------------------------------------------------------- responses
NullData == [isNull |-> TRUE, ok |-> FALSE, error |-> NoErrorField,
             from_count |-> Undefined, to_count |-> Undefined]

Responses ==
    {NullData} \cup
    [isNull : {FALSE}, ok : BOOLEAN,
     error : ServerErrors \cup {NoErrorField, ""},
     from_count : ServerCounts \cup {Undefined},
     to_count : ServerCounts \cup {Undefined}]

Truthy(str) == str # NoErrorField /\ str # ""

\* a mutation of Throws: a response that is not ok is accepted
ThrowsOnNullOnly(data) == data.isNull

\* the try block throws after the response was parsed
Throws(data) == data.isNull \/ ~data.ok

\* a mutation of ThrownMessage: the server's text is dropped
ThrownMessageGeneric(data) ==
    IF data.isNull THEN NullDataMessage ELSE MoveFailed

\* message of the error thrown for a parsed response
ThrownMessage(data) ==
    IF data.isNull THEN NullDataMessage
    ELSE IF Truthy(data.error) THEN data.error ELSE MoveFailed

\* text handed to showNotification by the catch block
CatchMessage(errorMessage) ==
    IF errorMessage # "" THEN errorMessage ELSE CouldNotMoveTask

\* a mutation of CommitBadges: the client's counts are kept
CommitBadgesKeepClient(b, evtFrom, evtTo, data) == b

\* a mutation of CommitBadges: a count the response lacks is shown as zero
CommitBadgesAbsentAsZero(b, evtFrom, evtTo, data) ==
    LET b1 == UpdateBadgeCount(b, evtFrom,
                  IF data.from_count # Undefined THEN data.from_count ELSE 0)
    IN  UpdateBadgeCount(b1, evtTo,
                  IF data.to_count # Undefined THEN data.to_count ELSE 0)

\* the badges after the commit branch
CommitBadges(b, evtFrom, evtTo, data) ==
    LET b1 == IF data.from_count # Undefined
              THEN UpdateBadgeCount(b, evtFrom, data.from_count)
              ELSE b
    IN  IF data.to_count # Undefined
        THEN UpdateBadgeCount(b1, evtTo, data.to_count)
        ELSE b1

ServerWrites(data) ==
    (IF data.from_count # Undefined THEN 1 ELSE 0)
  + (IF data.to_count # Undefined THEN 1 ELSE 0)

\* ----------------------------------------------------------------- drops
\* a mutation of InFlight: a continuation runs again after it finished
InFlightAlways(dr) == TRUE

\* the async onEnd of this drop is suspended at one of its awaits
InFlight(dr) == dr.st = "REQUESTING"

Final == {"COMMITTED", "ROLLED_BACK"}

\* what onEnd holds of a drop while its request is in flight: the event,
\* the request, and (history) the DOM at the start of its gesture and whether
\* no other gesture has started since
NoEvent == [item |-> Null, from |-> Null, oldIndex |-> Null, to |-> Null,
            newIndex |-> Null, body |-> NoRequest, clean |-> TRUE, snap |-> << >>]

Pending(evt) == [st |-> "REQUESTING", answered |-> FALSE, evt |-> evt]

\* a finished onEnd keeps nothing of its event
Resolved(st) == [st |-> st, answered |-> TRUE, evt |-> NoEvent]

\* what the server or the transport answered
Outcome(data) == IF data.isNull THEN "null" ELSE IF data.ok THEN "ok" ELSE "notok"

Failures == {"network", "parse", "null", "notok"}

\* history of one step: which handler ran (kind) for which drop (d, evt),
\* what came in (cause; err: the text of data.error or of the rejection;
\* the counts of an accepted response; hadCounts: the response had a count)
\* and how many badges were written from the response
NoLast == [kind |-> "none", d |-> 0, cause |-> "none", err |-> "",
           from_count |-> Undefined, to_count |-> Undefined, hadCounts |-> FALSE,
           writes |-> 0, evt |-> NoEvent]

\* ------------------------------------------------------------------ Init
\* the tasks are named in the order in which the page lists them
Placements == {p \in [Tasks -> Columns] : \A a, b \in Tasks : a < b => p[a] <= p[b]}

\* tasks of column c in the order of their ids
Layout(p, c) ==
    LET F[k \in 0..NumTasks] ==
            IF k = 0 THEN << >>
            ELSE IF p[k] = c THEN Append(F[k - 1], k) ELSE F[k - 1]
    IN  F[NumTasks]

\* ------------------------------------------------------------- form set
\* the fields of one row, named <prefix>-<index>-<field>
Fields == {"id", "DELETE", "url", "position"}

\* the fields the empty-form template marks as required
TemplateRequired == {"url"}

\* an empty position input
Blank == -1

PositionStep == 100

\* the largest position the add button is followed to
MaxPosition == MaxGuess * PositionStep

\* position values of the rows the server rendered
InitPositions == {Blank, PositionStep}

\* the row made from the template with __prefix__ replaced by idx
NewRow(idx) ==
    [index |-> idx, idValue |-> FALSE, checked |-> FALSE, hidden |-> FALSE,
     disabled |-> {}, required |-> TemplateRequired, wasRequired |-> {},
     position |-> Blank]

\* a row as the server renders it: numbered idx, with or without an id
RenderedRow(idx, hasId, pos) ==
    [NewRow(idx) EXCEPT !.idValue = hasId, !.position = pos]

IsExistingRow(row) == row.idValue

\* a mutation of DisableNonCritical: every field of the row is disabled
DisableEveryField(row, disabled) ==
    [row EXCEPT !.disabled = IF disabled THEN Fields ELSE {},
                !.required = IF disabled THEN {} ELSE @]

DisableNonCritical(row, disabled) ==
    LET critical == {"id", "DELETE"}
        others == Fields \ critical
    IN  [row EXCEPT
            !.wasRequired = IF disabled THEN @ \cup (row.required \cap others)
                            ELSE @ \ others,
            !.disabled = IF disabled THEN (@ \ critical) \cup others
                         ELSE @ \ Fields,
            !.required = IF disabled THEN @ \ others ELSE @]

\* row.remove() on the row at place i of the container
RemoveAt(rs, i) ==
    [k \in 1..(Len(rs) - 1) |-> IF k < i THEN rs[k] ELSE rs[k + 1]]

\* a mutation of ReindexAll: the names are left as they are
ReindexNothing(rs) == rs

\* the rows after reindexAll: <prefix>-<digits> becomes <prefix>-<i> in the
\* names of the i-th row, hidden rows included
ReindexAll(rs) == [k \in 1..Len(rs) |-> [rs[k] EXCEPT !.index = k - 1]]

\* TOTAL_FORMS after addRow
TotalAfterAdd(idx) == idx + 1

NextPositionGuess(rs) ==
    LET vals == {rs[k].position : k \in 1..Len(rs)} \ {Blank}
        maxPos == IF \E v \in vals : v > 0
                  THEN CHOOSE v \in vals : \A w \in vals : w <= v
                  ELSE 0
    IN  maxPos + PositionStep

\* op: the operation, row: the place it worked on, len: the rows before it
NoLinkOp == [op |-> "none", row |-> 0, len |-> 0]

Init ==
    /\ \E p \in Placements : cols = [c \in Columns |-> Layout(p, c)]
    /\ badge = [c \in Columns |-> Len(cols[c])]
    /\ canDrag \in [Columns -> BOOLEAN]
    /\ initialized = FALSE
    /\ registered = {}
    /\ session = NoSession
    /\ gesture = NoGesture
    /\ drops = << >>
    /\ fetchCalls = 0
    /\ toastCount = 0
    /\ toastMsg = ""
    /\ startLog = [count |-> 0, evt |-> NoGesture, cols |-> cols]
    /\ last = NoLast
    /\ rows = << >>
    /\ totalForms = 0
    /\ linkLast = NoLinkOp

\* --------------------------------------------------------------- actions
\* a mutation of Register: every column of the board gets a Sortable
RegisterEveryColumn(boardFound, cd) == IF boardFound THEN Columns ELSE {}

\* a mutation of Register: the missing board is not noticed
RegisterWithoutBoard(boardFound, cd) == {c \in Columns : cd[c]}

\* the columns that get a Sortable
Register(boardFound, cd) ==
    IF boardFound THEN {c \in Columns : cd[c]} ELSE {}

InitializeKanbanBoard(boardFound) ==
    /\ ~initialized
    /\ initialized' = TRUE
    /\ registered' = Register(boardFound, canDrag)
    /\ last' = [NoLast EXCEPT !.kind = "init",
                              !.cause = IF boardFound THEN "board" ELSE "noboard"]
    /\ UNCHANGED <<cols, badge, canDrag, session, gesture, drops, fetchCalls,
                   toastCount, toastMsg, startLog>>
    /\ UNCHANGED linkVars

OnStart(item) ==
    /\ gesture = NoGesture
    /\ Len(drops) < MaxDrops
    /\ ColumnOf(cols, item) \in registered
    /\ LET evt == [item |-> item, from |-> ColumnOf(cols, item),
                   oldIndex |-> IndexOf(cols[ColumnOf(cols, item)], item)]
       IN  /\ session' = CaptureSession(evt)
           /\ gesture' = evt
           /\ startLog' = [count |-> startLog.count + 1, evt |-> evt, cols |-> cols]
    /\ drops' = [d \in DOMAIN drops |->
                    IF InFlight(drops[d]) THEN [drops[d] EXCEPT !.evt.clean = FALSE]
                    ELSE drops[d]]
    /\ last' = [NoLast EXCEPT !.kind = "start"]
    /\ UNCHANGED <<cols, badge, canDrag, initialized, registered, fetchCalls,
                   toastCount, toastMsg>>
    /\ UNCHANGED linkVars

OnEnd(to, newIndex) ==
    /\ gesture # NoGesture
    /\ to \in registered
    /\ LET moved == Detach(cols, gesture.item)
       IN  /\ newIndex <= Len(moved[to])
           /\ cols' = [moved EXCEPT ![to] = InsertAt(@, newIndex, gesture.item)]
    /\ badge' = UpdateColumnCounts(badge, cols', gesture.from, to)
    /\ fetchCalls' = Fetch(fetchCalls)
    /\ LET evt == [item |-> gesture.item, from |-> gesture.from,
                   oldIndex |-> gesture.oldIndex, to |-> to, newIndex |-> newIndex,
                   body |-> MoveRequest(gesture.item, to, newIndex),
                   clean |-> TRUE, snap |-> startLog.cols]
       IN  /\ drops' = Append(drops, Pending(evt))
           /\ last' = [NoLast EXCEPT !.kind = "drop", !.d = Len(drops) + 1,
                                     !.evt = evt]
    /\ gesture' = NoGesture
    /\ UNCHANGED <<canDrag, initialized, registered, session, toastCount, toastMsg,
                   startLog>>
    /\ UNCHANGED linkVars

\* the catch block of onEnd; raw is the text that came in, errorMessage the
\* message of the error caught
Catch(d, cause, raw, hadCounts, errorMessage) ==
    /\ cols' = RevertMove(cols, RollbackSnapshot(session, drops[d].evt))
    /\ session' = SessionAfterRevert(session)
    /\ badge' = RevertCounts(badge, cols', RollbackSnapshot(session, drops[d].evt),
                             drops[d].evt.to)
    /\ toastCount' = toastCount + 1
    /\ toastMsg' = CatchMessage(errorMessage)
    /\ drops' = [drops EXCEPT ![d] = Resolved("ROLLED_BACK")]
    /\ last' = [NoLast EXCEPT !.kind = "rollback", !.d = d, !.cause = cause,
                              !.err = raw, !.hadCounts = hadCounts,
                              !.evt = drops[d].evt]
    /\ UNCHANGED <<canDrag, initialized, registered, gesture, fetchCalls, startLog>>
    /\ UNCHANGED linkVars

\* await fetch(...) rejects
FetchReject(d, msg) ==
    /\ d \in DOMAIN drops
    /\ InFlight(drops[d])
    /\ ~drops[d].answered
    /\ Catch(d, "network", msg, FALSE, msg)

\* await fetch(...) resolves with a response whose body is still to be read
FetchResolve(d) ==
    /\ d \in DOMAIN drops
    /\ InFlight(drops[d])
    /\ ~drops[d].answered
    /\ drops' = [drops EXCEPT ![d].answered = TRUE]
    /\ last' = [NoLast EXCEPT !.kind = "response", !.d = d]
    /\ UNCHANGED <<cols, badge, canDrag, initialized, registered, session,
                   gesture, fetchCalls, toastCount, toastMsg, startLog>>
    /\ UNCHANGED linkVars

\* await response.json() rejects
JsonReject(d, msg) ==
    /\ d \in DOMAIN drops
    /\ InFlight(drops[d])
    /\ drops[d].answered
    /\ Catch(d, "parse", msg, FALSE, msg)

\* await response.json() resolves with data
JsonResolve(d, data) ==
    /\ d \in DOMAIN drops
    /\ InFlight(drops[d])
    /\ drops[d].answered
    /\ IF Throws(data)
       THEN Catch(d, Outcome(data), data.error, ServerWrites(data) > 0,
                  ThrownMessage(data))
       ELSE /\ badge' = CommitBadges(badge, drops[d].evt.from, drops[d].evt.to, data)
            /\ drops' = [drops EXCEPT ![d] = Resolved("COMMITTED")]
            /\ last' = [NoLast EXCEPT !.kind = "commit", !.d = d,
                                      !.cause = Outcome(data), !.err = data.error,
                                      !.hadCounts = ServerWrites(data) > 0,
                                      !.from_count = data.from_count,
                                      !.to_count = data.to_count,
                                      !.writes = ServerWrites(data),
                                      !.evt = drops[d].evt]
            /\ UNCHANGED <<cols, canDrag, initialized, registered, session,
                           gesture, fetchCalls, toastCount, toastMsg, startLog>>
            /\ UNCHANGED linkVars

DropIds == 1..MaxDrops

Next ==
    \/ \E boardFound \in BOOLEAN : InitializeKanbanBoard(boardFound)
    \/ \E item \in Tasks : OnStart(item)
    \/ \E to \in Columns, newIndex \in 0..NumTasks : OnEnd(to, newIndex)
    \/ \E d \in DropIds, msg \in TransportMessages : FetchReject(d, msg)
    \/ \E d \in DropIds : FetchResolve(d)
    \/ \E d \in DropIds, msg \in ParseMessages : JsonReject(d, msg)
    \/ \E d \in DropIds, data \in Responses : JsonResolve(d, data)

Spec == Init /\ [][Next]_vars

\* a page whose columns are all drag-enabled, the first holding one task
OnePage ==
    /\ Init
    /\ \A c \in Columns : canDrag[c]
    /\ Len(cols[1]) = 1

\* once a response has arrived, reading its body ends: response.json()
\* settles, and the continuation of onEnd runs
FairSpec ==
    /\ OnePage
    /\ [][Next]_vars
    /\ \A d \in DropIds :
          WF_vars((\E msg \in ParseMessages : JsonReject(d, msg))
                  \/ (\E data \in Responses : JsonResolve(d, data)))

\* ----------------------------------------------------- form set actions
kanbanVars == <<cols, badge, canDrag, initialized, registered, session, gesture,
                drops, fetchCalls, toastCount, toastMsg, startLog, last>>

\* click on the add button
AddRow ==
    /\ Len(rows) < MaxRows
    /\ NextPositionGuess(rows) <= MaxPosition
    /\ LET idx == totalForms
           appended == Append(rows, NewRow(idx))
           node == Len(appended)
       IN  /\ rows' = IF appended[node].position = Blank
                      THEN [appended EXCEPT ![node].position = NextPositionGuess(appended)]
                      ELSE appended
           /\ totalForms' = TotalAfterAdd(idx)
           /\ linkLast' = [op |-> "add", row |-> node, len |-> Len(rows)]
    /\ UNCHANGED kanbanVars

\* click on the remove button of the row at place i; a hidden row shows no
\* button
RemoveRow(i) ==
    /\ i \in 1..Len(rows)
    /\ ~rows[i].hidden
    /\ IF IsExistingRow(rows[i])
       THEN /\ rows' = [rows EXCEPT
                          ![i] = [DisableNonCritical([@ EXCEPT !.checked = TRUE], TRUE)
                                     EXCEPT !.hidden = TRUE]]
            /\ UNCHANGED totalForms
       ELSE /\ rows' = ReindexAll(RemoveAt(rows, i))
            /\ totalForms' = Len(rows')
    /\ linkLast' = [op |-> "remove", row |-> i, len |-> Len(rows)]
    /\ UNCHANGED kanbanVars

LinksNext ==
    \/ AddRow
    \/ \E i \in 1..MaxRows : RemoveRow(i)

\* a page with the form set and no board: the rows the server rendered are
\* numbered in order and counted by TOTAL_FORMS
LinksInit ==
    /\ \E n \in 0..InitRows :
          \E hasId \in [1..n -> BOOLEAN], pos \in [1..n -> InitPositions] :
              rows = [k \in 1..n |-> RenderedRow(k - 1, hasId[k], pos[k])]
    /\ totalForms = Len(rows)
    /\ linkLast = NoLinkOp
    /\ cols = [c \in Columns |-> << >>]
    /\ badge = [c \in Columns |-> 0]
    /\ canDrag = [c \in Columns |-> FALSE]
    /\ initialized = FALSE
    /\ registered = {}
    /\ session = NoSession
    /\ gesture = NoGesture
    /\ drops = << >>
    /\ fetchCalls = 0
    /\ toastCount = 0
    /\ toastMsg = ""
    /\ startLog = [count |-> 0, evt |-> NoGesture, cols |-> cols]
    /\ last = NoLast

LinksSpec == LinksInit /\ [][LinksNext]_vars

TypeOK ==
    /\ \A c \in Columns : badge[c] \in 0..NumTasks
    /\ Len(drops) <= MaxDrops
    /\ toastCount \in 0..MaxDrops

\* ---------------------------------------------------------------- claims
Settled == last.kind \in {"drop", "commit", "rollback"}

Unresolved == {d \in DOMAIN drops : InFlight(drops[d])}

RolledBack == {d \in DOMAIN drops : drops[d].st = "ROLLED_BACK"}

Committed == {d \in DOMAIN drops : drops[d].st = "COMMITTED"}

\* task t stands at zero-based index i of column c
At(cs, c, i, t) == i < Len(cs[c]) /\ cs[c][i + 1] = t

\* C1 (as claimed): after the rollback of a drop during whose request no
\* other drag started, the dragged task is back at its origin index in its
\* origin column and every column is as it was at drag start.
C1_RollbackExact ==
    (last.kind = "rollback" /\ last.evt.clean)
        => /\ At(cols, last.evt.from, last.evt.oldIndex, last.evt.item)
           /\ cols = last.evt.snap

\* C2 (as claimed, in runs where no server count has been written yet, so
\* that every badge shows a count made by the client): after every
\* optimistic update and every rollback, overlapping drags included, the
\* badge of every column equals the number of tasks in the column.
C2_BadgeEqualsCount ==
    (Settled /\ Committed = {}) => \A c \in Columns : badge[c] = Len(cols[c])

\* C3 (as claimed): right after a commit whose response carries both counts
\* the origin badge equals from_count and the destination badge to_count.
C3_ServerAuthority ==
    (last.kind = "commit" /\ last.from_count # Undefined /\ last.to_count # Undefined)
        => /\ badge[last.evt.from] = last.from_count
           /\ badge[last.evt.to] = last.to_count

\* C3 (amended): right after such a commit the destination badge equals
\* to_count, and the origin badge equals from_count when the origin is
\* another column than the destination.
C3_ServerAuthorityDistinct ==
    (last.kind = "commit" /\ last.from_count # Undefined /\ last.to_count # Undefined)
        => /\ badge[last.evt.to] = last.to_count
           /\ last.evt.from # last.evt.to => badge[last.evt.from] = last.from_count

\* a commit between two columns whose server counts both differ from what
\* the client counts
C3_Witness ==
    /\ last.kind = "commit"
    /\ last.from_count # Undefined /\ last.to_count # Undefined
    /\ last.evt.from # last.evt.to
    /\ last.from_count # Len(cols[last.evt.from])
    /\ last.to_count # Len(cols[last.evt.to])
    /\ badge[last.evt.from] = last.from_count

\* C4: the number of requests issued equals the number of drops, also
\* after a drop has failed.
C4_OneRequestPerDrop == fetchCalls = Len(drops)

\* two drops, the first of them failed, one request each
C4_Witness ==
    /\ Len(drops) = MaxDrops
    /\ 1 \in RolledBack
    /\ fetchCalls = MaxDrops

\* C5: a request that fails (rejected, unparseable, parsed to null or to a
\* response that is not ok) ends in the catch block: the drop is rolled
\* back, the session's task is in the session's origin column, no badge is
\* written from the response, the badges of the drop's destination and of the
\* session's origin are recounted, and one notification is emitted per
\* failure; a commit only follows a response that is ok.
C5_FailureRollsBack ==
    /\ last.cause \in Failures
          => /\ last.kind = "rollback"
             /\ last.d \in RolledBack
             /\ last.writes = 0
             /\ Contains(cols[session.originalColumn], session.draggedElement)
             /\ badge[last.evt.to] = Len(cols[last.evt.to])
             /\ badge[session.originalColumn] = Len(cols[session.originalColumn])
    /\ last.kind = "commit" => last.cause = "ok"
    /\ toastCount = Cardinality(RolledBack)

\* a response that is not ok and carries counts was rolled back
C5_Witness ==
    /\ last.kind = "rollback"
    /\ last.cause = "notok"
    /\ last.hadCounts
    /\ toastCount = 1

\* C6: a drop enters as REQUESTING; once its request is answered it reaches
\* COMMITTED or ROLLED_BACK, coming from REQUESTING, and then stays as it is.
C6_DropLifecycle ==
    /\ \A d \in DropIds :
          (d \in DOMAIN drops /\ drops[d].answered)
              ~> (d \in DOMAIN drops /\ drops[d].st \in Final)
    /\ [][\A d \in DOMAIN drops' :
              IF d \in DOMAIN drops
              THEN /\ drops[d].st \in Final => drops'[d] = drops[d]
                   /\ drops'[d].st \in Final
                         => drops[d].st \in Final \cup {"REQUESTING"}
              ELSE drops'[d].st = "REQUESTING"]_vars

\* one drop committed and another rolled back
C6_Witness == Committed # {} /\ RolledBack # {}

\* C7: every task stands at exactly one place of exactly one column.
C7_OnePlacePerTask == \A t \in Tasks : Cardinality(Places(cols, t)) = 1

\* a rollback that ran on the session of a later drag
C7_Witness ==
    /\ last.kind = "rollback"
    /\ ~last.evt.clean
    /\ session.draggedElement # last.evt.item
    /\ cols # last.evt.snap

\* C8 (as claimed): while a drop's request is in flight the session holds
\* what was captured at the start of that drop's gesture.
C8_SessionStable ==
    \A d \in Unresolved :
        /\ session.draggedElement = drops[d].evt.item
        /\ session.originalColumn = drops[d].evt.from
        /\ session.originalIndex = drops[d].evt.oldIndex

\* C9 (as claimed): with no gesture in progress and no request in flight
\* the session holds nothing.
C9_SessionTransient ==
    (gesture = NoGesture /\ Unresolved = {}) => session = NoSession

\* C9 (amended): the session holds nothing before the first gesture starts;
\* from then on it holds the task, origin column and origin index of the
\* gesture started last, whatever has been committed or rolled back since.
C9_SessionKeepsLatestStart ==
    /\ startLog.count = 0 => session = NoSession
    /\ startLog.count > 0
          => /\ session.draggedElement = startLog.evt.item
             /\ session.originalColumn = startLog.evt.from
             /\ session.originalIndex = startLog.evt.oldIndex
             /\ session.draggedElement # Null

\* every drop is rolled back or committed, no gesture is in progress, and
\* the session still holds a task
C9_Witness ==
    /\ gesture = NoGesture
    /\ Unresolved = {}
    /\ RolledBack # {}
    /\ Committed # {}
    /\ session.draggedElement \in Tasks

GenericFallbacks == {MoveFailed, CouldNotMoveTask}

C11_ReadOnlyColumns ==
    [][\A c \in Columns :
          ~canDrag[c]
              => /\ cols'[c] = cols[c]
                 /\ c \notin registered'
                 /\ \A d \in DOMAIN drops' :
                       InFlight(drops'[d])
                           => /\ drops'[d].evt.from # c
                              /\ drops'[d].evt.to # c
                              /\ drops'[d].evt.body.column_id # c]_vars

\* a board with a read-only column that holds a task, after a commit and a
\* rollback in its other column
C11_Witness ==
    /\ \E c \in Columns : ~canDrag[c] /\ Len(cols[c]) > 0
    /\ registered # {}
    /\ Committed # {}
    /\ RolledBack # {}

\* C12: initializing with a board id that matches no element registers no
\* column, changes no task, badge or session value and issues no request;
\* nothing can be dragged afterwards.
C12_NoBoardNoEffect ==
    /\ [][last'.cause = "noboard"
            => /\ registered' = {}
               /\ UNCHANGED <<cols, badge, session, gesture, drops, fetchCalls,
                              toastCount, toastMsg>>]_vars
    /\ [](last.cause = "noboard" => ~ENABLED (\E item \in Tasks : OnStart(item)))

\* the board is missing on a page that has tasks in a drag-enabled column
C12_Witness ==
    /\ last.kind = "init"
    /\ last.cause = "noboard"
    /\ \E c \in Columns : canDrag[c] /\ Len(cols[c]) > 0

\* C13 (as claimed): after the rollback of a drop during whose request
\* another drag started, the session is that later drag's snapshot and the
\* failed drop's task, which that drop had moved, does not stand where it
\* stood at its own drag start.
C13_FirstTaskNotReturned ==
    (/\ last.kind = "rollback"
     /\ ~last.evt.clean
     /\ (last.evt.from # last.evt.to \/ last.evt.oldIndex # last.evt.newIndex))
        => /\ session.draggedElement = startLog.evt.item
           /\ session.originalColumn = startLog.evt.from
           /\ session.originalIndex = startLog.evt.oldIndex
           /\ ~At(cols, last.evt.from, last.evt.oldIndex, last.evt.item)

\* C13 (amended): the rollback of a drop during whose request another drag
\* started works on the snapshot of the drag started last: it puts that
\* drag's task into that drag's origin column and moves no other task, so
\* the failed drop's task, when it is another task, stays where it was.
C13_RollbackUsesLatestDrag ==
    [][\A d \in DOMAIN drops :
          (InFlight(drops[d]) /\ ~drops[d].evt.clean /\ drops'[d].st = "ROLLED_BACK")
              => /\ Contains(cols'[startLog.evt.from], startLog.evt.item)
                 /\ Detach(cols', startLog.evt.item) = Detach(cols, startLog.evt.item)
                 /\ drops[d].evt.item # startLog.evt.item
                       => ColumnOf(cols', drops[d].evt.item)
                              = ColumnOf(cols, drops[d].evt.item)]_vars

\* the first drop moved its task to another column, a drag of another task
\* started, the first request failed, and the first task is still away
C13_Witness ==
    /\ last.kind = "rollback"
    /\ ~last.evt.clean
    /\ last.evt.from # last.evt.to
    /\ session.draggedElement # last.evt.item
    /\ Contains(cols[last.evt.to], last.evt.item)

\* C14: a rollback inserts the recorded task before the element that stands
\* at the recorded origin index of the origin column (a task that is itself
\* that element stays there); with no element at that index the task becomes
\* the last of the origin column.  No other task moves, and the handler ends
\* with its one notification in both cases.
C14_RollbackInsertion ==
    [][\A d \in DOMAIN drops :
          (InFlight(drops[d]) /\ drops'[d].st = "ROLLED_BACK")
              => LET oc == session.originalColumn
                     item == session.draggedElement
                     children == cols[oc]
                     after == cols'[oc]
                 IN  /\ IF session.originalIndex < Len(children)
                        THEN IF children[session.originalIndex + 1] = item
                             THEN cols' = cols
                             ELSE \E k \in 1..(Len(after) - 1) :
                                     /\ after[k] = item
                                     /\ after[k + 1] = children[session.originalIndex + 1]
                        ELSE /\ Len(after) > 0
                             /\ after[Len(after)] = item
                     /\ Detach(cols', item) = Detach(cols, item)
                     /\ toastCount' = toastCount + 1
                     /\ drops'[d] = Resolved("ROLLED_BACK")]_vars

\* the only drop ever made took the last task of its column to another
\* column and failed: the origin column was too short for the recorded index
\* and the task was appended
C14_Witness ==
    /\ last.kind = "rollback"
    /\ fetchCalls = 1
    /\ last.evt.from # last.evt.to
    /\ last.evt.oldIndex >= 1
    /\ session.originalIndex = last.evt.oldIndex
    /\ Len(cols[last.evt.from]) = last.evt.oldIndex + 1
    /\ cols[last.evt.from][last.evt.oldIndex + 1] = last.evt.item

\* C15: a commit changes counts only: no task changes column or index, only
\* the badges of the drop's origin and destination columns may change, and
\* a badge for which the response carries no count keeps the value it had.
C15_CommitCountsOnly ==
    [][\A d \in DOMAIN drops :
          (InFlight(drops[d]) /\ drops'[d].st = "COMMITTED")
              => LET evt == drops[d].evt
                     noFrom == last'.from_count = Undefined
                     noTo == last'.to_count = Undefined
                 IN  /\ cols' = cols
                     /\ \A c \in Columns \ {evt.from, evt.to} : badge'[c] = badge[c]
                     /\ (noFrom /\ (noTo \/ evt.from # evt.to))
                           => badge'[evt.from] = badge[evt.from]
                     /\ (noTo /\ (noFrom \/ evt.from # evt.to))
                           => badge'[evt.to] = badge[evt.to]]_vars

\* a commit between two columns whose response had a destination count
\* differing from the client's and no origin count
C15_Witness ==
    /\ last.kind = "commit"
    /\ last.evt.from # last.evt.to
    /\ last.from_count = Undefined
    /\ last.to_count # Undefined
    /\ last.to_count # Len(cols[last.evt.to])
    /\ badge[last.evt.from] = Len(cols[last.evt.from])
    /\ badge[last.evt.from] > 0

\* C16: right after a drop, with its request issued and in flight, the
\* badges of the origin and of the destination column equal the number of
\* tasks in each; the drop moves the dragged task to the dropped place and
\* no other task; and the badges stay as they are until another drop or a
\* resolution takes place.
C16_OptimisticCounts ==
    /\ [](last.kind = "drop"
            => /\ InFlight(drops[last.d])
               /\ drops[last.d].evt = last.evt
               /\ badge[last.evt.from] = Len(cols[last.evt.from])
               /\ badge[last.evt.to] = Len(cols[last.evt.to])
               /\ At(cols, last.evt.to, last.evt.newIndex, last.evt.item))
    /\ [][last'.kind = "drop"
             => /\ Detach(cols', last'.evt.item) = Detach(cols, last'.evt.item)
                /\ fetchCalls' = fetchCalls + 1
                /\ \A c \in Columns \ {last'.evt.from, last'.evt.to} :
                      badge'[c] = badge[c]]_vars
    /\ [][last'.kind \notin {"drop", "commit", "rollback"} => badge' = badge]_vars

\* a drop into another column is in flight, both badges recounted, while an
\* earlier drop is still unresolved
C16_Witness ==
    /\ last.kind = "drop"
    /\ last.evt.from # last.evt.to
    /\ last.d = 2
    /\ InFlight(drops[1])
    /\ badge[last.evt.to] = Len(cols[last.evt.to])
    /\ badge[last.evt.to] > 0

\* C17: the request of every unresolved drop carries that drop's own task,
\* destination column and destination index, and a commit writes the counts
\* of the response to the badges of that drop's own origin and destination
\* columns, whatever the drag session holds by then.
C17_DropUsesOwnEvent ==
    /\ [](\A d \in DOMAIN drops :
             InFlight(drops[d])
                 => /\ drops[d].evt.body.taskId = drops[d].evt.item
                    /\ drops[d].evt.body.column_id = drops[d].evt.to
                    /\ drops[d].evt.body.position = drops[d].evt.newIndex)
    /\ [](last.kind = "drop"
            => /\ At(cols, last.evt.body.column_id, last.evt.body.position,
                     last.evt.body.taskId)
               /\ last.evt.item = startLog.evt.item
               /\ last.evt.from = startLog.evt.from)
    /\ [][\A d \in DOMAIN drops :
             (InFlight(drops[d]) /\ drops'[d].st = "COMMITTED")
                 => LET evt == drops[d].evt
                    IN  /\ last'.to_count # Undefined => badge'[evt.to] = last'.to_count
                        /\ (last'.from_count # Undefined /\ evt.from # evt.to)
                              => badge'[evt.from] = last'.from_count
                        /\ (last'.from_count # Undefined /\ last'.to_count = Undefined)
                              => badge'[evt.from] = last'.from_count]_vars

\* a drop between two columns was committed with both counts after a drag
\* of another task out of another column had overwritten the session
C17_Witness ==
    /\ last.kind = "commit"
    /\ ~last.evt.clean
    /\ last.evt.from # last.evt.to
    /\ session.draggedElement # last.evt.item
    /\ session.originalColumn # last.evt.from
    /\ last.from_count # Undefined
    /\ last.to_count # Undefined
    /\ badge[last.evt.from] = last.from_count
    /\ badge[last.evt.to] = last.to_count

\* C18: the TOTAL_FORMS counter equals the number of rows in the container,
\* hidden ones included, and the rows carry the indices 0..n-1 in order.
C18_ContiguousIndices ==
    /\ totalForms = Len(rows)
    /\ \A k \in 1..Len(rows) : rows[k].index = k - 1

\* a new row that was not the last one has just been removed while a hidden
\* stored row and a row added after it are in the container
C18_Witness ==
    /\ linkLast.op = "remove"
    /\ Len(rows) = linkLast.len - 1
    /\ linkLast.row <= Len(rows)
    /\ totalForms = Len(rows)
    /\ \E k \in 1..Len(rows) : rows[k].hidden
    /\ \E k \in 1..Len(rows) :
          /\ k >= linkLast.row
          /\ ~rows[k].idValue
          /\ rows[k].position > PositionStep
          /\ rows[k].index = k - 1

\* C19: removing a visible row whose id field has a value keeps the row,
\* checks its DELETE box, hides it, leaves id and DELETE enabled, disables
\* its other fields, and changes neither TOTAL_FORMS nor any row's index nor
\* any other row; removing a row without id value takes it out, keeps the
\* other rows in order and numbers them 0..n-1.
C19_RemoveRowFrame ==
    [][linkLast'.op = "remove"
         => LET i == linkLast'.row
            IN  IF rows[i].idValue
                THEN /\ Len(rows') = Len(rows)
                     /\ rows'[i].idValue
                     /\ rows'[i].checked
                     /\ rows'[i].hidden
                     /\ rows'[i].disabled = Fields \ {"id", "DELETE"}
                     /\ rows'[i].position = rows[i].position
                     /\ totalForms' = totalForms
                     /\ \A k \in 1..Len(rows) :
                           /\ rows'[k].index = rows[k].index
                           /\ k # i => rows'[k] = rows[k]
                ELSE /\ Len(rows') = Len(rows) - 1
                     /\ \A k \in 1..Len(rows') :
                           /\ rows'[k].index = k - 1
                           /\ [rows'[k] EXCEPT !.index = 0]
                                 = [RemoveAt(rows, i)[k] EXCEPT !.index = 0]
                     /\ totalForms' = Len(rows')]_vars

\* a stored row has just been removed: it is still there, hidden and marked,
\* next to a new row that keeps its number
C19_Witness ==
    /\ linkLast.op = "remove"
    /\ Len(rows) = linkLast.len
    /\ LET r == rows[linkLast.row]
       IN  /\ r.idValue
           /\ r.hidden
           /\ r.checked
           /\ r.wasRequired = TemplateRequired
           /\ "id" \notin r.disabled
    /\ \E k \in 1..Len(rows) : ~rows[k].idValue /\ ~rows[k].hidden /\ k > linkLast.row
====
